---- MODULE Spec2Model ----
(***************************************************************************)
(* Peer-learning session manager (React client).                           *)
(*                                                                         *)
(* Part 1 models the rule functions of utils/pointsCalculator              *)
(* (src/unnamed/part_002) as operators, and applies them to bounded inputs *)
(* under the specifications SpecRules and SpecElig.                        *)
(* Part 2 models the session life cycle driven by SessionDetailPage,       *)
(* CreateSessionPage and FeedbackForm against the document store reached   *)
(* through services/api (src/unnamed/part_006), under Spec.                *)
(*                                                                         *)
(* Numbers: a rating average is the exact quotient sum/len; it is compared *)
(* with 4.5 as 2*sum >= 9*len, and a two-decimal value is carried in       *)
(* hundredths (4.67 is 467).                                               *)
(***************************************************************************)
EXTENDS Integers, Sequences, FiniteSets, TLC

\* ------------------------------------------------------------------ bounds
\* Longest attendee roster handed to the rule functions.
MaxAttendees == 9
\* Longest feedback list handed to the rule functions.
MaxFeedbacks == 5
\* Largest cumulative points value handed to shouldAwardBadge.
MaxPoints == 101

\* ------------------------------------------------------------ value domains
Ratings == 1 .. 5
Behaviors == <<"Good", "Neutral", "Bad">>
BehaviorSet == {Behaviors[i] : i \in DOMAIN Behaviors}
Statuses == {"scheduled", "ongoing", "completed"}

\* The value JavaScript yields for a property that is not there.
Undefined == "undefined"

\* =========================================================================
\* Part 1: utils/pointsCalculator
\* =========================================================================

\* feedbacks.reduce((sum, f) => sum + f.rating, 0)
RECURSIVE reduceRating(_)
reduceRating(feedbacks) ==
    IF feedbacks = <<>> THEN 0
    ELSE reduceRating(SubSeq(feedbacks, 1, Len(feedbacks) - 1))
         + feedbacks[Len(feedbacks)].rating

\* feedbacks.filter(f => f.behavior === behavior).length
filterBehavior(feedbacks, behavior) ==
    Cardinality({i \in DOMAIN feedbacks : feedbacks[i].behavior = behavior})

calculateSessionPointsNoCompletion(sessionData) ==
    LET attendeeCount == Len(sessionData.attendees)
    IN  IF attendeeCount = 1 THEN 2
        ELSE IF attendeeCount = 2 THEN 3
        ELSE IF attendeeCount = 3 THEN 4
        ELSE IF attendeeCount = 4 THEN 5
        ELSE IF attendeeCount = 5 THEN 6
        ELSE IF attendeeCount = 6 THEN 7
        ELSE IF attendeeCount = 7 THEN 8
        ELSE IF attendeeCount >= 8 THEN 10
        ELSE 0

calculateSessionPoints(sessionData) ==
    LET attendeeCount == Len(sessionData.attendees)
        points == IF attendeeCount = 1 THEN 2
                  ELSE IF attendeeCount = 2 THEN 3
                  ELSE IF attendeeCount = 3 THEN 4
                  ELSE IF attendeeCount = 4 THEN 5
                  ELSE IF attendeeCount = 5 THEN 6
                  ELSE IF attendeeCount = 6 THEN 7
                  ELSE IF attendeeCount = 7 THEN 8
                  ELSE IF attendeeCount >= 8 THEN 10
                  ELSE 0
    IN  IF sessionData.status = "completed" THEN points + 1 ELSE points

calculateBonusPointsStrict(feedbacks) ==
    IF feedbacks = <<>> THEN 0
    ELSE (IF 2 * reduceRating(feedbacks) > 9 * Len(feedbacks) THEN 3 ELSE 0)
         + filterBehavior(feedbacks, "Good")

calculateBonusPoints(feedbacks) ==
    IF feedbacks = <<>> THEN 0
    ELSE LET bonus == IF 2 * reduceRating(feedbacks) >= 9 * Len(feedbacks)
                      THEN 3 ELSE 0
             goodBehaviors == filterBehavior(feedbacks, "Good")
         IN  bonus + goodBehaviors

calculateTotalPoints(sessionData, feedbacks) ==
    calculateSessionPoints(sessionData) + calculateBonusPoints(feedbacks)

toFixed2Truncating(sum, len) == (100 * sum) \div len

\* parseFloat((sum / len).toFixed(2)) in hundredths: the multiple of 0.01
\* nearest to the quotient, the larger one on a tie.
toFixed2(sum, len) == (200 * sum + len) \div (2 * len)

calculateAverageFeedback(feedbacks) ==
    IF feedbacks = <<>>
    THEN [averageRating |-> 0, totalFeedback |-> 0, goodCount |-> 0,
          neutralCount |-> 0, badCount |-> 0]
    ELSE [averageRating |-> toFixed2(reduceRating(feedbacks), Len(feedbacks)),
          totalFeedback |-> Len(feedbacks),
          goodCount     |-> filterBehavior(feedbacks, "Good"),
          neutralCount  |-> filterBehavior(feedbacks, "Neutral"),
          badCount      |-> filterBehavior(feedbacks, "Bad")]

\* The table inside shouldAwardBadge (names without their emoji prefix).
badgeThresholds ==
    << [name |-> "Beginner Helper", points |-> 5],
       [name |-> "Peer Mentor", points |-> 20],
       [name |-> "Super Helper", points |-> 50],
       [name |-> "Champion Mentor", points |-> 100] >>

\* A JavaScript value met as an element of userBadges: a string, an object
\* with a name property, or a stored badge record (property badgeName).
JsString(s) == [type |-> "string", value |-> s]
JsNamed(s) == [type |-> "object", name |-> s]
JsBadgeRecord(s) == [type |-> "object", badgeName |-> s]

\* b.name
nameOf(b) ==
    IF b.type = "object" /\ "name" \in DOMAIN b THEN b.name ELSE Undefined

RECURSIVE awardFrom(_, _, _)
awardFrom(k, userPoints, userBadges) ==
    IF k > Len(badgeThresholds) THEN <<>>
    ELSE LET badge == badgeThresholds[k]
             rest == awardFrom(k + 1, userPoints, userBadges)
         IN  IF userPoints >= badge.points
                /\ ~(\E i \in DOMAIN userBadges : nameOf(userBadges[i]) = badge.name)
             THEN <<badge.name>> \o rest
             ELSE rest

shouldAwardBadge(userPoints, userBadges) == awardFrom(1, userPoints, userBadges)

checkCertificateEligibilityRatingOnly(sessionData, feedbacks) ==
    LET feedback == calculateAverageFeedback(feedbacks)
    IN  [peerMentor |-> sessionData.status = "completed"
                        /\ Len(sessionData.attendees) > 0,
         outstandingHelper |-> feedback.averageRating >= 450]

checkCertificateEligibility(sessionData, feedbacks) ==
    LET feedback == calculateAverageFeedback(feedbacks)
    IN  [peerMentor |-> sessionData.status = "completed"
                        /\ Len(sessionData.attendees) > 0,
         outstandingHelper |-> feedback.averageRating >= 450
                               /\ feedback.goodCount > feedback.badCount]

\* ------------------------------------------------- inputs of the rule functions
VARIABLES
    call,   \* the rule function under test and its arguments
    ret     \* its result, once it has returned

ruleVars == <<call, ret>>

VARIABLES
    build,          \* which of the two the bundle does
    session,        \* the stored session document
    feedbackDb,     \* the stored feedback of the session, in insertion order
    totalPoints,    \* the stored totalPoints of each user
    certificates,   \* the stored certificates, in insertion order
    badges,         \* the stored badges, in insertion order
    page,           \* each user's SessionDetailPage state
    completions,    \* the handleCompleteSession invocations, in start order
    joins,          \* each user's handleJoinSession invocations awaiting the store
    app             \* the App component of one browser and its localStorage

storeVars == <<session, feedbackDb, totalPoints, certificates, badges>>
appVars == <<build, session, feedbackDb, totalPoints, certificates, badges,
             page, completions, joins, app>>
vars == <<call, ret, build, session, feedbackDb, totalPoints, certificates,
          badges, page, completions, joins, app>>

\* A roster of n attendees (user ids 1..n).
roster(n) == [i \in 1 .. n |-> i]

SessionInputs ==
    [attendees : {roster(n) : n \in 0 .. MaxAttendees}, status : Statuses]

FeedbackEntries == [rating : Ratings, behavior : BehaviorSet]

behaviorIndex(b) == CHOOSE i \in DOMAIN Behaviors : Behaviors[i] = b
entryKey(e) == Len(Behaviors) * e.rating + behaviorIndex(e.behavior)

\* Feedback lists of length n, one per multiset of entries (entries in
\* nondecreasing entryKey order).
RECURSIVE feedbackListsOfLen(_)
feedbackListsOfLen(n) ==
    IF n = 0 THEN {<<>>}
    ELSE {Append(l, e) : <<l, e>> \in
            {<<l, e>> \in feedbackListsOfLen(n - 1) \X FeedbackEntries :
                l = <<>> \/ entryKey(l[Len(l)]) <= entryKey(e)}}

reverse(l) == [i \in DOMAIN l |-> l[Len(l) + 1 - i]]

AscendingLists == UNION {feedbackListsOfLen(n) : n \in 0 .. MaxFeedbacks}

\* Every such list, in ascending and in descending order.
FeedbackLists == AscendingLists \cup {reverse(l) : l \in AscendingLists}

\* The names of the threshold table picked by a set of indices, in table order.
RECURSIVE namesFrom(_, _)
namesFrom(k, picked) ==
    IF k > Len(badgeThresholds) THEN <<>>
    ELSE (IF k \in picked THEN <<badgeThresholds[k].name>> ELSE <<>>)
         \o namesFrom(k + 1, picked)

NameLists == {namesFrom(1, picked) : picked \in SUBSET DOMAIN badgeThresholds}

asStrings(names) == [i \in DOMAIN names |-> JsString(names[i])]
asNamed(names) == [i \in DOMAIN names |-> JsNamed(names[i])]
asBadgeRecords(names) == [i \in DOMAIN names |-> JsBadgeRecord(names[i])]

\* Held-badge arguments: a list of names, of {name} objects, or of the badge
\* records the store returns.
HeldLists ==
    {asStrings(n) : n \in NameLists} \cup {asNamed(n) : n \in NameLists}
    \cup {asBadgeRecords(n) : n \in NameLists}

RuleInputs ==
    [fn : {"calculateSessionPoints"}, sessionData : SessionInputs]
    \cup [fn : {"calculateBonusPoints"}, feedbacks : FeedbackLists]
    \cup [fn : {"calculateAverageFeedback"}, feedbacks : FeedbackLists]
    \cup [fn : {"shouldAwardBadge"}, userPoints : 0 .. MaxPoints,
          userBadges : HeldLists, pass : {1}]

NoResult == [done |-> FALSE]
Returned(v) == [done |-> TRUE, value |-> v]

CallCalculateSessionPoints ==
    /\ call.fn = "calculateSessionPoints" /\ ~ret.done
    /\ ret' = Returned(calculateSessionPoints(call.sessionData))
    /\ UNCHANGED <<call, appVars>>

CallCalculateBonusPoints ==
    /\ call.fn = "calculateBonusPoints" /\ ~ret.done
    /\ ret' = Returned(calculateBonusPoints(call.feedbacks))
    /\ UNCHANGED <<call, appVars>>

CallCalculateAverageFeedback ==
    /\ call.fn = "calculateAverageFeedback" /\ ~ret.done
    /\ ret' = Returned(calculateAverageFeedback(call.feedbacks))
    /\ UNCHANGED <<call, appVars>>

CallShouldAwardBadge ==
    /\ call.fn = "shouldAwardBadge" /\ call.pass = 1 /\ ~ret.done
    /\ ret' = Returned(shouldAwardBadge(call.userPoints, call.userBadges))
    /\ UNCHANGED <<call, appVars>>

\* The caller records the awarded names as held and asks again.
CallShouldAwardBadgeAgain ==
    /\ call.fn = "shouldAwardBadge" /\ call.pass = 1 /\ ret.done
    /\ LET held == call.userBadges \o asStrings(ret.value)
       IN  /\ call' = [call EXCEPT !.userBadges = held, !.pass = 2]
           /\ ret' = Returned(shouldAwardBadge(call.userPoints, held))
    /\ UNCHANGED appVars

CallCheckCertificateEligibility ==
    /\ call.fn = "checkCertificateEligibility" /\ ~ret.done
    /\ ret' = Returned(checkCertificateEligibility(call.sessionData, call.feedbacks))
    /\ UNCHANGED <<call, appVars>>

\* ------------------------------------------- long lists around the mean 4.5
\* Longest feedback list handed to the two rating tests together.
MaxLongFeedbacks == 101

\* k entries of rating 5 followed by m of rating 4, all of behavior Good.
fivesAndFours(k, m) ==
    [i \in 1 .. (k + m) |->
        [rating |-> IF i <= k THEN 5 ELSE 4, behavior |-> "Good"]]

\* Such lists with about as many fives as fours (mean within 1/n of 4.5).
LongLists ==
    {fivesAndFours(p[2], p[1] - p[2]) :
        p \in {q \in (1 .. MaxLongFeedbacks) \X (0 .. MaxLongFeedbacks) :
                  q[2] <= q[1] /\ 2 * q[2] - q[1] \in -2 .. 2}}

\* calculateBonusPoints and checkCertificateEligibility on one list, as
\* handleCompleteSession calls them for a completed session.
CallBonusAndEligibility ==
    /\ call.fn = "bonusAndEligibility" /\ ~ret.done
    /\ ret' = Returned(
                 [bonusPoints |-> calculateBonusPoints(call.feedbacks),
                  eligibility |->
                      checkCertificateEligibility(
                          [attendees |-> roster(1), status |-> "completed"],
                          call.feedbacks)])
    /\ UNCHANGED <<call, appVars>>

\* --------------------------------------------- claims on the rule functions
Fb(r, b) == [rating |-> r, behavior |-> b]

\* The step table of the points formula: n attendees -> points.
stepTable(n) ==
    IF n = 0 THEN 0
    ELSE IF n >= 8 THEN 10
    ELSE <<2, 3, 4, 5, 6, 7, 8>>[n]

\* The sum of the ratings, counted rating by rating.
ratingTotal(feedbacks) ==
    LET count(r) == Cardinality({i \in DOMAIN feedbacks : feedbacks[i].rating = r})
    IN  count(1) + 2 * count(2) + 3 * count(3) + 4 * count(4) + 5 * count(5)

behaviorCount(feedbacks, b) ==
    Cardinality({i \in DOMAIN feedbacks : feedbacks[i].behavior = b})

\* mean rating >= 4.5
meanAtLeast45(feedbacks) ==
    feedbacks # <<>> /\ 10 * ratingTotal(feedbacks) >= 45 * Len(feedbacks)

\* C1: calculateSessionPoints returns stepTable(number of attendees), plus 1
\* when the status is completed.
C1_BasePoints ==
    (call.fn = "calculateSessionPoints" /\ ret.done) =>
        ret.value = stepTable(Len(call.sessionData.attendees))
                    + (IF call.sessionData.status = "completed" THEN 1 ELSE 0)

\* Five attendees, completed: 7 points.
C1_Witness ==
    /\ call.fn = "calculateSessionPoints" /\ ret.done
    /\ Len(call.sessionData.attendees) = 5
    /\ call.sessionData.status = "completed"
    /\ ret.value = 7

\* C2: calculateBonusPoints returns 0 for the empty list, and otherwise 3 if
\* the mean rating is at least 4.5 (else 0) plus the number of Good entries.
C2_BonusPoints ==
    (call.fn = "calculateBonusPoints" /\ ret.done) =>
        IF call.feedbacks = <<>> THEN ret.value = 0
        ELSE ret.value = (IF meanAtLeast45(call.feedbacks) THEN 3 ELSE 0)
                         + behaviorCount(call.feedbacks, "Good")

\* [{5, Good}, {4, Good}] gives 3 + 2.
C2_Witness ==
    /\ call.fn = "calculateBonusPoints" /\ ret.done
    /\ call.feedbacks = <<Fb(5, "Good"), Fb(4, "Good")>>
    /\ ret.value = 5

\* C3: calculateAverageFeedback returns the length of the list, the number of
\* Good, Neutral and Bad entries, and the mean rating rounded to two decimals
\* (a multiple of 0.01 within 0.005 of the mean); every field is 0 for the
\* empty list.
C3_Aggregate ==
    (call.fn = "calculateAverageFeedback" /\ ret.done) =>
        LET f == call.feedbacks
            n == Len(f)
            d == 100 * ratingTotal(f) - ret.value.averageRating * n
        IN  /\ ret.value.totalFeedback = n
            /\ ret.value.goodCount = behaviorCount(f, "Good")
            /\ ret.value.neutralCount = behaviorCount(f, "Neutral")
            /\ ret.value.badCount = behaviorCount(f, "Bad")
            /\ 2 * d <= n /\ 2 * (0 - d) <= n
            /\ (n = 0 => ret.value.averageRating = 0)

\* Three ratings 5, 5, 4: mean 4.666..., reported as 4.67.
C3_Witness ==
    /\ call.fn = "calculateAverageFeedback" /\ ret.done
    /\ Len(call.feedbacks) = 3 /\ ratingTotal(call.feedbacks) = 14
    /\ ret.value.averageRating = 467
    /\ ret.value.goodCount + ret.value.neutralCount + ret.value.badCount = 3

\* The names of the threshold table a user with these points should get who
\* holds the badges named in held.
awardable(points, heldNames) ==
    LET wanted == {k \in DOMAIN badgeThresholds :
                      /\ badgeThresholds[k].points <= points
                      /\ badgeThresholds[k].name \notin heldNames}
    IN  namesFrom(1, wanted)

\* The badge names a held list of names carries.
stringsOf(userBadges) ==
    {userBadges[i].value : i \in {j \in DOMAIN userBadges : userBadges[j].type = "string"}}

allStrings(userBadges) == \A i \in DOMAIN userBadges : userBadges[i].type = "string"

\* C4: shouldAwardBadge(points, held), held a list of badge names, returns
\* exactly the badges of the table whose threshold is <= points and whose
\* name is not in held, in table order.
C4_AwardableBadges ==
    (call.fn = "shouldAwardBadge" /\ call.pass = 1 /\ ret.done
        /\ allStrings(call.userBadges)) =>
        ret.value = awardable(call.userPoints, stringsOf(call.userBadges))

\* C5: with the awarded names added to the held list, shouldAwardBadge
\* returns the empty list.
C5_BadgesIdempotent ==
    (call.fn = "shouldAwardBadge" /\ call.pass = 2) => ret.value = <<>>

MaxUsers == 2
\* handleCompleteSession invocations followed.
MaxCompletions == 2
\* Feedback records the store holds at most.
MaxStoredFeedback == 3

\* Users 1 .. MaxJoinUsers where only joining is followed.
MaxJoinUsers == 3
\* handleJoinSession invocations of one user awaiting their answer at most.
MaxJoinsInFlight == 2

Users == 1 .. MaxUsers
JoinUsers == 1 .. MaxJoinUsers

\* What the forms offer, as far as the model enumerates it.
FormRatings == {3, 5}
FormBehaviors == {"Good", "Bad"}
LearnedTexts == {"", " ", "text"}
SeatChoices == {0, 1}

\* The const avgRating of handleCompleteSession is read (line 754) above its
\* declaration (line 761).  A build that keeps const throws a ReferenceError
\* there; a build that lowers const to var reads undefined.
Builds == {"const", "var"}

\* No document (getSession answers null).
NoSession == [status |-> "none", attendees |-> <<>>, maxSeats |-> 0, creatorId |-> 0]

\* useState initial values of SessionDetailPage.
InitialPage ==
    [loading |-> TRUE, session |-> NoSession, feedbacks |-> <<>>,
     attendees |-> <<>>, isAttending |-> FALSE,
     showFeedbackForm |-> FALSE, showCompleteForm |-> FALSE]

trimNothing(text) == text

\* learned.trim()
trim(text) == IF text = " " THEN "" ELSE text

\* ------------------------------------------------------------------ the App
\* No user (null, or no such localStorage item).
NoUser == 0

\* The routes: /login, or one of the routes wrapped in PrivateRoute.
Routes == {"login", "protected"}

\* PrivateRoute: the children, or the redirect to /login.
PrivateRoute(currentUser) ==
    IF currentUser = NoUser THEN "login" ELSE "children"

\* The router once App renders its routes: a protected route without a user
\* is replaced by /login.
redirect(a) ==
    IF ~a.loading /\ a.route = "protected" /\ PrivateRoute(a.currentUser) = "login"
    THEN [a EXCEPT !.route = "login"]
    ELSE a

\* App as its initialisation effect leaves it: currentUser from the
\* localStorage item 'currentUser' if there is one (lines 54-64), the
\* request to /auth/user on its way if the browser is online and the stored
\* user is missing or has a placeholder picture (lines 66-99), loadUser
\* started and the spinner kept if there is a 'userId' item (lines 101-106).
mountApp(userId, stored, online, placeholder, route) ==
    redirect([currentUser |-> stored, loading |-> userId # NoUser,
              userId |-> userId, stored |-> stored,
              loadUser |-> userId,
              refresh |-> online /\ (stored = NoUser \/ placeholder),
              online |-> online, route |-> route])

\* The App opened at /login, online, in a browser that holds nothing of it;
\* the answer to its /auth/user request has been that nobody is logged in.
FreshApp ==
    [mountApp(NoUser, NoUser, TRUE, FALSE, "login") EXCEPT !.refresh = FALSE]

\* A protected route is on the screen.
protectedShown ==
    ~app.loading /\ app.route = "protected"
    /\ PrivateRoute(app.currentUser) = "children"

\* The page is (re)loaded: the state of App is lost, localStorage and the
\* address stay, the effect runs.
ReloadApp ==
    /\ \E placeholder \in BOOLEAN :
         app' = mountApp(app.userId, app.stored, app.online, placeholder,
                         app.route)
    /\ UNCHANGED <<call, ret, build, joins, storeVars, page, completions>>

\* The browser goes offline or online.
ConnectivityChanges ==
    /\ app' = [app EXCEPT !.online = ~@]
    /\ UNCHANGED <<call, ret, build, joins, storeVars, page, completions>>

\* A link of the Navbar, or an address typed in.
Navigate(route) ==
    /\ ~app.loading /\ app.route # route
    /\ app' = redirect([app EXCEPT !.route = route])
    /\ UNCHANGED <<call, ret, build, joins, storeVars, page, completions>>

\* The answer to the /auth/user request of the effect: the user of the
\* server's login session, or none.
AuthUserReturns ==
    /\ app.refresh
    /\ \E user \in {NoUser} \cup JoinUsers :
         app' = IF user # NoUser
                THEN [app EXCEPT !.refresh = FALSE, !.userId = user,
                                 !.stored = user, !.currentUser = user]
                ELSE [app EXCEPT !.refresh = FALSE]
    /\ UNCHANGED <<call, ret, build, joins, storeVars, page, completions>>

\* loadUser from the answer of userAPI.getUser on.
LoadUserReturns ==
    /\ app.loadUser # NoUser
    /\ \E answer \in {"user", "message", "error"} :
         LET done == [app EXCEPT !.loading = FALSE, !.loadUser = NoUser]
         IN  app' = redirect(
                      IF answer = "user"
                      THEN [done EXCEPT !.currentUser = app.loadUser]
                      ELSE IF answer = "message"
                      THEN [done EXCEPT !.userId = NoUser, !.stored = NoUser]
                      ELSE IF app.stored = NoUser
                      THEN [done EXCEPT !.userId = NoUser]
                      ELSE done)
    /\ UNCHANGED <<call, ret, build, joins, storeVars, page, completions>>

\* Navbar.handleLogout and App.handleLogout on the App state, and
\* navigate('/login').
handleLogout(a) ==
    [a EXCEPT !.userId = NoUser, !.currentUser = NoUser, !.route = "login"]

\* App.handleLogin, called by LoginPage (form or guest) with the user, and
\* navigate('/').
handleLogin(a, user) ==
    [a EXCEPT !.userId = user, !.stored = user, !.currentUser = user,
              !.route = "protected"]

\* LoginPage.handleSubmit or handleGuestLogin, the user found or made.
Login(user) ==
    /\ ~app.loading /\ app.route = "login"
    /\ app' = handleLogin(app, user)
    /\ UNCHANGED <<call, ret, build, joins, storeVars, page, completions>>

\* The Logout button of the Navbar.
Logout ==
    /\ ~app.loading /\ app.currentUser # NoUser
    /\ app' = handleLogout(app)
    /\ UNCHANGED <<call, ret, build, joins, storeVars, page, completions>>

\* ------------------------------------------------------------ store requests
createSessionOngoing(creatorId, maxSeats) ==
    [status |-> "ongoing", attendees |-> <<>>, maxSeats |-> maxSeats,
     creatorId |-> creatorId]

\* POST /sessions with the document CreateSessionPage builds.
createSession(creatorId, maxSeats) ==
    [status |-> "scheduled", attendees |-> <<>>, maxSeats |-> maxSeats,
     creatorId |-> creatorId]

addAttendeeReplacing(s, userId) == [s EXCEPT !.attendees = <<userId>>]

\* POST /sessions/:id/attendees {userId}
addAttendee(s, userId) == [s EXCEPT !.attendees = Append(@, userId)]

completeSessionToggling(s) ==
    [s EXCEPT !.status = IF @ = "completed" THEN "scheduled" ELSE "completed"]

\* PATCH /sessions/:id/status {status: 'completed'}
completeSession(s) == [s EXCEPT !.status = "completed"]

addPointsOverwriting(points, userId, amount) == [points EXCEPT ![userId] = amount]

\* PATCH /users/:id/points {points}
addPoints(points, userId, amount) == [points EXCEPT ![userId] = @ + amount]

\* session?.attendees?.includes(userId) || false
isAttending(s, userId) == \E i \in DOMAIN s.attendees : s.attendees[i] = userId

\* ------------------------------------------------------------------- pages
isCreator(u) == page[u].session # NoSession /\ u = page[u].session.creatorId

\* Nothing of u's page is clickable while it shows the spinner.
Ready(u) == ~page[u].loading

Busy(u) ==
    \/ \E i \in DOMAIN completions :
          completions[i].user = u /\ completions[i].pc \notin {"succeeded", "failed"}
    \/ joins[u] > 0

\* The route is entered (again): the component mounts with its initial state
\* and its effect starts loadSessionData.  Followed while no
\* handleCompleteSession of the page is in flight.
MountPage(u) ==
    /\ ~Busy(u)
    /\ page[u] # InitialPage
    /\ page' = [page EXCEPT ![u] = InitialPage]
    /\ UNCHANGED <<call, ret, build, joins, app, storeVars, completions>>

\* loadSessionData, from its reads to setLoading(false); the reads are taken
\* to succeed and to see one state of the store.
LoadSessionData(u) ==
    /\ page[u].loading
    /\ page' = [page EXCEPT ![u] =
                   [@ EXCEPT !.loading = FALSE,
                             !.session = session,
                             !.attendees = session.attendees,
                             !.feedbacks = feedbackDb,
                             !.isAttending = IF session # NoSession
                                             THEN isAttending(session, u)
                                             ELSE @]]
    /\ UNCHANGED <<call, ret, build, joins, app, storeVars, completions>>

\* CreateSessionPage.handleSubmit by user u.
CreateSessionSubmit(u) ==
    /\ session = NoSession
    /\ \E formValid, requestOk \in BOOLEAN, maxSeats \in SeatChoices :
         IF formValid /\ requestOk
         THEN session' = createSession(u, maxSeats)
         ELSE UNCHANGED session
    /\ UNCHANGED <<call, ret, build, joins, app, feedbackDb, totalPoints, certificates,
                   badges, page, completions>>

\* handleJoinSession, behind the Join Session button: one click, answered
\* before the user acts again.
HandleJoinSession(u) ==
    /\ Ready(u) /\ page[u].session # NoSession
    /\ ~page[u].isAttending /\ ~isCreator(u)
    /\ page[u].session.status = "scheduled"
    /\ \E requestOk \in BOOLEAN :
         IF requestOk
         THEN /\ session' = addAttendee(session, u)
              /\ page' = [page EXCEPT ![u] =
                             [@ EXCEPT !.isAttending = TRUE, !.loading = TRUE]]
         ELSE UNCHANGED <<session, page>>
    /\ UNCHANGED <<call, ret, build, joins, app, feedbackDb, totalPoints, certificates,
                   badges, completions>>

\* The Join Session button is shown (lines 955-964; neither joining nor the
\* seats of the session are looked at).
joinButtonShown(u) ==
    /\ Ready(u) /\ page[u].session # NoSession
    /\ ~page[u].isAttending /\ ~isCreator(u)
    /\ page[u].session.status = "scheduled"

\* handleJoinSession up to its await: the request is on its way, and the
\* button stays as it was.
ClickJoinSession(u) ==
    /\ joinButtonShown(u)
    /\ joins[u] < MaxJoinsInFlight
    /\ joins' = [joins EXCEPT ![u] = @ + 1]
    /\ UNCHANGED <<call, ret, build, app, storeVars, page, completions>>

\* handleJoinSession from the answer on: the updated session (setIsAttending,
\* loadSessionData), or the catch branch.
JoinSessionReturns(u) ==
    /\ joins[u] > 0
    /\ joins' = [joins EXCEPT ![u] = @ - 1]
    /\ \E requestOk \in BOOLEAN :
         IF requestOk
         THEN /\ session' = addAttendee(session, u)
              /\ page' = [page EXCEPT ![u] =
                             [@ EXCEPT !.isAttending = TRUE, !.loading = TRUE]]
         ELSE UNCHANGED <<session, page>>
    /\ UNCHANGED <<call, ret, build, app, feedbackDb, totalPoints, certificates,
                   badges, completions>>

\* The Give Feedback button.
OpenFeedbackForm(u) ==
    /\ Ready(u) /\ page[u].session # NoSession
    /\ page[u].isAttending
    /\ ~(\E i \in DOMAIN page[u].feedbacks : page[u].feedbacks[i].studentId = u)
    /\ ~page[u].showFeedbackForm
    /\ page' = [page EXCEPT ![u] = [@ EXCEPT !.showFeedbackForm = TRUE]]
    /\ UNCHANGED <<call, ret, build, joins, app, storeVars, completions>>

OpenCompleteFormAnyone(u) ==
    /\ Ready(u) /\ page[u].session # NoSession
    /\ page[u].session.status # "completed"
    /\ Len(page[u].feedbacks) > 0
    /\ ~page[u].showCompleteForm
    /\ page' = [page EXCEPT ![u] = [@ EXCEPT !.showCompleteForm = TRUE]]
    /\ UNCHANGED <<call, ret, build, joins, app, storeVars, completions>>

\* The Complete Session & Award Points button.
OpenCompleteForm(u) ==
    /\ Ready(u) /\ isCreator(u)
    /\ page[u].session.status # "completed"
    /\ Len(page[u].feedbacks) > 0
    /\ ~page[u].showCompleteForm
    /\ page' = [page EXCEPT ![u] = [@ EXCEPT !.showCompleteForm = TRUE]]
    /\ UNCHANGED <<call, ret, build, joins, app, storeVars, completions>>

\* onClose of a form (Cancel, the X, the backdrop).
CloseForm(u) ==
    /\ Ready(u) /\ page[u].session # NoSession
    /\ \/ /\ page[u].showFeedbackForm
          /\ page' = [page EXCEPT ![u] = [@ EXCEPT !.showFeedbackForm = FALSE]]
       \/ /\ page[u].showCompleteForm
          /\ page' = [page EXCEPT ![u] = [@ EXCEPT !.showCompleteForm = FALSE]]
    /\ UNCHANGED <<call, ret, build, joins, app, storeVars, completions>>

\* feedbackData of FeedbackForm.handleSubmit.
feedbackData(u, rating, learned, behavior) ==
    [studentId |-> u, rating |-> rating, learned |-> learned, behavior |-> behavior]

\* FeedbackForm.handleSubmit of the attendee's form; its onSubmit reloads the
\* page and closes the form.
SubmitFeedback(u) ==
    /\ Ready(u) /\ page[u].session # NoSession /\ page[u].showFeedbackForm
    /\ Len(feedbackDb) < MaxStoredFeedback
    /\ \E rating \in FormRatings, behavior \in FormBehaviors,
          learned \in LearnedTexts, requestOk \in BOOLEAN :
         IF trim(learned) # "" /\ requestOk
         THEN /\ feedbackDb' = Append(feedbackDb, feedbackData(u, rating, learned, behavior))
              /\ page' = [page EXCEPT ![u] =
                             [@ EXCEPT !.showFeedbackForm = FALSE, !.loading = TRUE]]
         ELSE UNCHANGED <<feedbackDb, page>>
    /\ UNCHANGED <<call, ret, build, joins, app, session, totalPoints, certificates, badges,
                   completions>>

\* ------------------------------------------- FeedbackForm.handleSubmit alone
\* What a FeedbackForm holds when Submit is pressed (the rating is one of the
\* five stars), and whether the store will take the request.
FormInputs ==
    [fn : {"FeedbackForm.handleSubmit"}, studentId : Users, rating : Ratings,
     learned : LearnedTexts, behavior : BehaviorSet, requestOk : BOOLEAN]

\* The error state of the form after handleSubmit ('' is no message).
FormError(message) == [error |-> message]

\* handleSubmit, from the test of learned to the finally branch.
CallHandleSubmit ==
    /\ call.fn = "FeedbackForm.handleSubmit" /\ ~ret.done
    /\ IF trim(call.learned) = ""
       THEN /\ ret' = Returned(FormError("Please tell us what you learned"))
            /\ UNCHANGED feedbackDb
       ELSE IF call.requestOk
       THEN /\ feedbackDb' = Append(feedbackDb,
                                    feedbackData(call.studentId, call.rating,
                                                 call.learned, call.behavior))
            /\ ret' = Returned(FormError(""))
       ELSE /\ ret' = Returned(FormError("Failed to submit feedback"))
            /\ UNCHANGED feedbackDb
    /\ UNCHANGED <<call, build, session, totalPoints, certificates, badges,
                   page, completions, joins, app>>

\* ------------------------------------------------- handleCompleteSession
\* A rating average as handleCompleteSession holds it: the quotient sum/len,
\* or undefined.
Avg(sum, len) == [defined |-> TRUE, sum |-> sum, len |-> len]
AvgUndefined == [defined |-> FALSE]

\* avgRating >= tenths / 10  (a comparison with undefined is false)
avgAtLeast(avgRating, tenths) ==
    avgRating.defined /\ 10 * avgRating.sum >= tenths * avgRating.len

\* avgRating of lines 761-763.
avgRatingOf(allFeedbacks) ==
    IF Len(allFeedbacks) > 0
    THEN Avg(reduceRating(allFeedbacks), Len(allFeedbacks))
    ELSE Avg(0, 1)

\* avgRating >= 4.5 ? 'outstanding-helper' : 'peer-mentor'
certificateTypeOf(avgRating) ==
    IF avgAtLeast(avgRating, 45) THEN "outstanding-helper" ELSE "peer-mentor"

\* The invocation record: the closure values and locals of one run of
\* handleCompleteSession, and where it stands.
NewCompletion(u, createdFeedback) ==
    [pc |-> "completeSession", user |-> u,
     creatorId |-> page[u].session.creatorId,
     allFeedbacks |-> Append(page[u].feedbacks, createdFeedback),
     attendees |-> page[u].attendees,
     sessionData |-> NoSession, totalPoints |-> 0,
     pointsStored |-> FALSE, certificateType |-> "none"]

\* FeedbackForm.handleSubmit of the creator's completion form (the behavior
\* field is not shown and keeps its initial value); its onSubmit is
\* handleCompleteSession, which handleSubmit does not await.
SubmitCompleteForm(u) ==
    /\ Ready(u) /\ page[u].session # NoSession /\ page[u].showCompleteForm
    /\ Len(completions) < MaxCompletions
    /\ Len(feedbackDb) < MaxStoredFeedback
    /\ \E rating \in FormRatings, learned \in LearnedTexts, requestOk \in BOOLEAN :
         IF trim(learned) # "" /\ requestOk
         THEN LET created == feedbackData(u, rating, learned, "Good")
              IN  /\ feedbackDb' = Append(feedbackDb, created)
                  /\ completions' = Append(completions, NewCompletion(u, created))
         ELSE UNCHANGED <<feedbackDb, completions>>
    /\ UNCHANGED <<call, ret, build, joins, app, session, totalPoints, certificates, badges,
                   page>>

Failed(i) == [completions EXCEPT ![i].pc = "failed"]

\* Lines 760-789 up to the request: which badge, if any, is asked for.
badgeNameFor(allFeedbacks) ==
    LET avgRating == avgRatingOf(allFeedbacks)
    IN  IF avgAtLeast(avgRating, 45) THEN "Excellent Teacher"
        ELSE IF avgAtLeast(avgRating, 40) THEN "Peer Mentor"
        ELSE "none"

\* Lines 791-793: the form is closed, the page reloads, success is reported.
FinishCompletion(i, next) ==
    /\ completions' = [next EXCEPT ![i].pc = "succeeded"]
    /\ page' = [page EXCEPT ![completions[i].user] =
                   [@ EXCEPT !.showCompleteForm = FALSE, !.loading = TRUE]]

\* From the certificate step on: the badge request, or the end.
ToBadgeStep(i, next) ==
    IF badgeNameFor(completions[i].allFeedbacks) # "none"
    THEN completions' = [next EXCEPT ![i].pc = "addBadge"] /\ UNCHANGED page
    ELSE FinishCompletion(i, next)

\* await sessionDB.completeSession(sessionId)
StepCompleteSession(i) ==
    /\ completions[i].pc = "completeSession"
    /\ \E requestOk \in BOOLEAN :
         IF requestOk
         THEN /\ session' = completeSession(session)
              /\ completions' = [completions EXCEPT ![i].pc = "getSession"]
         ELSE /\ completions' = Failed(i)
              /\ UNCHANGED session
    /\ UNCHANGED <<call, ret, build, joins, app, feedbackDb, totalPoints, certificates,
                   badges, page>>

\* await sessionDB.getSession(sessionId), then the points of lines 732-736
\* (calculateSessionPoints(null) throws).
StepGetSession(i) ==
    /\ completions[i].pc = "getSession"
    /\ \E requestOk \in BOOLEAN :
         IF requestOk
         THEN completions' =
                 [completions EXCEPT
                    ![i].pc = "addPoints",
                    ![i].sessionData = session,
                    ![i].totalPoints =
                        calculateSessionPoints(session)
                        + calculateBonusPoints(completions[i].allFeedbacks)]
         ELSE completions' = Failed(i)
    /\ UNCHANGED <<call, ret, build, joins, app, storeVars, page>>

\* await pointsDB.addPoints(...) (a failed request is logged and dropped), then
\* the eligibility test and the certificate object of lines 746-757.
StepAddPoints(i) ==
    /\ completions[i].pc = "addPoints"
    /\ \E requestOk \in BOOLEAN :
         LET c == completions[i]
             next == [completions EXCEPT ![i].pointsStored = requestOk]
             eligibility == checkCertificateEligibility(c.sessionData, c.allFeedbacks)
         IN  /\ totalPoints' = IF requestOk
                               THEN addPoints(totalPoints, c.creatorId, c.totalPoints)
                               ELSE totalPoints
             /\ IF eligibility.peerMentor
                THEN /\ completions' =
                          IF build = "const"
                          THEN [next EXCEPT ![i].pc = "failed"]
                          ELSE [next EXCEPT ![i].pc = "createCertificate"]
                     /\ UNCHANGED page
                ELSE ToBadgeStep(i, next)
    /\ UNCHANGED <<call, ret, build, joins, app, session, feedbackDb, certificates, badges>>

\* await certificateDB.createCertificate({...}); avgRating is still undefined.
StepCreateCertificate(i) ==
    /\ completions[i].pc = "createCertificate"
    /\ \E requestOk \in BOOLEAN :
         LET c == completions[i]
             type == certificateTypeOf(AvgUndefined)
         IN  IF requestOk
             THEN /\ certificates' =
                        Append(certificates,
                               [userId |-> c.creatorId, certificateType |-> type,
                                averageRating |-> AvgUndefined,
                                totalAttendees |-> Len(c.attendees)])
                  /\ ToBadgeStep(i, [completions EXCEPT ![i].certificateType = type])
             ELSE /\ completions' = Failed(i)
                  /\ UNCHANGED <<certificates, page>>
    /\ UNCHANGED <<call, ret, build, joins, app, session, feedbackDb, totalPoints, badges>>

\* await badgeDB.addBadge({...}) inside its own try/catch, then lines 791-793.
StepAddBadge(i) ==
    /\ completions[i].pc = "addBadge"
    /\ \E requestOk \in BOOLEAN :
         badges' = IF requestOk
                   THEN Append(badges,
                               [userId |-> completions[i].creatorId,
                                badgeName |-> badgeNameFor(completions[i].allFeedbacks)])
                   ELSE badges
    /\ FinishCompletion(i, completions)
    /\ UNCHANGED <<call, ret, build, joins, app, session, feedbackDb, totalPoints, certificates>>

\* ---------------------------------------------------------- specifications
RulesIdle == call = [fn |-> "none"] /\ ret = NoResult

AppIdle ==
    /\ build = "const"
    /\ session = NoSession
    /\ feedbackDb = <<>>
    /\ totalPoints = [u \in Users |-> 0]
    /\ certificates = <<>>
    /\ badges = <<>>
    /\ page = [u \in Users |-> InitialPage]
    /\ completions = <<>>
    /\ joins = [u \in Users |-> 0]
    /\ app = FreshApp

InitRules == call \in RuleInputs /\ ret = NoResult /\ AppIdle

NextRules ==
    \/ CallCalculateSessionPoints
    \/ CallCalculateBonusPoints
    \/ CallCalculateAverageFeedback
    \/ CallShouldAwardBadge
    \/ CallShouldAwardBadgeAgain

SpecRules == InitRules /\ [][NextRules]_vars

\* Rosters handed to checkCertificateEligibility.
EligibilityRosters == {roster(n) : n \in {0, 1, 3}}

InitElig ==
    /\ call \in [fn : {"checkCertificateEligibility"},
                 sessionData : [attendees : EligibilityRosters, status : Statuses],
                 feedbacks : AscendingLists]
    /\ ret = NoResult
    /\ AppIdle

NextElig == CallCheckCertificateEligibility

SpecElig == InitElig /\ [][NextElig]_vars

InitRound ==
    /\ call \in [fn : {"bonusAndEligibility"}, feedbacks : LongLists]
    /\ ret = NoResult
    /\ AppIdle

NextRound == CallBonusAndEligibility

SpecRound == InitRound /\ [][NextRound]_vars

\* The App in one browser, from its first opening on.
InitAuth == RulesIdle /\ AppIdle

NextAuth ==
    \/ ReloadApp
    \/ ConnectivityChanges
    \/ \E route \in Routes : Navigate(route)
    \/ AuthUserReturns
    \/ LoadUserReturns
    \/ \E user \in JoinUsers : Login(user)
    \/ Logout

SpecAuth == InitAuth /\ [][NextAuth]_vars

\* One FeedbackForm, filled in, about to be submitted.
InitFeedback == call \in FormInputs /\ ret = NoResult /\ AppIdle

NextFeedback == CallHandleSubmit

SpecFeedback == InitFeedback /\ [][NextFeedback]_vars

\* Joining alone, with the requests of handleJoinSession in flight: a new
\* session, MaxJoinUsers users on its page.
InitJoin ==
    /\ RulesIdle
    /\ build \in Builds
    /\ session = NoSession
    /\ feedbackDb = <<>>
    /\ totalPoints = [u \in JoinUsers |-> 0]
    /\ certificates = <<>>
    /\ badges = <<>>
    /\ page = [u \in JoinUsers |-> InitialPage]
    /\ completions = <<>>
    /\ joins = [u \in JoinUsers |-> 0]
    /\ app = FreshApp

NextJoin ==
    \/ \E u \in JoinUsers : MountPage(u)
    \/ \E u \in JoinUsers : LoadSessionData(u)
    \/ \E u \in JoinUsers : CreateSessionSubmit(u)
    \/ \E u \in JoinUsers : ClickJoinSession(u)
    \/ \E u \in JoinUsers : JoinSessionReturns(u)

SpecJoin == InitJoin /\ [][NextJoin]_vars

\* The session a little later, with a third user around: user 1 has created
\* it (no seat limit), user 2 has joined and given feedback, and each of the
\* three users has just entered its page.
InitRace ==
    /\ RulesIdle
    /\ build \in Builds
    /\ session = addAttendee(createSession(1, 0), 2)
    /\ feedbackDb = <<feedbackData(2, 5, "text", "Good")>>
    /\ totalPoints = [u \in JoinUsers |-> 0]
    /\ certificates = <<>>
    /\ badges = <<>>
    /\ page = [u \in JoinUsers |-> InitialPage]
    /\ completions = <<>>
    /\ joins = [u \in JoinUsers |-> 0]
    /\ app = FreshApp

NextRace ==
    \/ \E u \in JoinUsers : LoadSessionData(u)
    \/ \E u \in JoinUsers : HandleJoinSession(u)
    \/ \E u \in JoinUsers : OpenFeedbackForm(u)
    \/ \E u \in JoinUsers : OpenCompleteForm(u)
    \/ \E u \in JoinUsers : CloseForm(u)
    \/ \E u \in JoinUsers : SubmitFeedback(u)
    \/ \E u \in JoinUsers : SubmitCompleteForm(u)
    \/ \E i \in DOMAIN completions : StepCompleteSession(i)
    \/ \E i \in DOMAIN completions : StepGetSession(i)
    \/ \E i \in DOMAIN completions : StepAddPoints(i)
    \/ \E i \in DOMAIN completions : StepCreateCertificate(i)
    \/ \E i \in DOMAIN completions : StepAddBadge(i)

SpecRace == InitRace /\ [][NextRace]_vars

\* Nothing is stored, every page has just mounted.
Init ==
    /\ RulesIdle
    /\ build \in Builds
    /\ session = NoSession
    /\ feedbackDb = <<>>
    /\ totalPoints = [u \in Users |-> 0]
    /\ certificates = <<>>
    /\ badges = <<>>
    /\ page = [u \in Users |-> InitialPage]
    /\ completions = <<>>
    /\ joins = [u \in Users |-> 0]
    /\ app = FreshApp

Next ==
    \/ \E u \in Users : MountPage(u)
    \/ \E u \in Users : LoadSessionData(u)
    \/ \E u \in Users : CreateSessionSubmit(u)
    \/ \E u \in Users : HandleJoinSession(u)
    \/ \E u \in Users : OpenFeedbackForm(u)
    \/ \E u \in Users : OpenCompleteForm(u)
    \/ \E u \in Users : CloseForm(u)
    \/ \E u \in Users : SubmitFeedback(u)
    \/ \E u \in Users : SubmitCompleteForm(u)
    \/ \E i \in DOMAIN completions : StepCompleteSession(i)
    \/ \E i \in DOMAIN completions : StepGetSession(i)
    \/ \E i \in DOMAIN completions : StepAddPoints(i)
    \/ \E i \in DOMAIN completions : StepCreateCertificate(i)
    \/ \E i \in DOMAIN completions : StepAddBadge(i)

Spec == Init /\ [][Next]_vars

\* ------------------------------------------- claims on the session life cycle
Eligible(c) == checkCertificateEligibility(c.sessionData, c.allFeedbacks)

\* C7: a certificate created at completion is of type outstanding-helper
\* exactly when peerMentor and outstandingHelper both hold for the session and
\* the feedback of that completion, and of type peer-mentor when peerMentor
\* holds and outstandingHelper does not.
C7_CertificateType ==
    \A i \in DOMAIN completions :
        LET c == completions[i]
        IN  c.certificateType # "none" =>
              /\ (c.certificateType = "outstanding-helper")
                    = (Eligible(c).peerMentor /\ Eligible(c).outstandingHelper)
              /\ (Eligible(c).peerMentor /\ ~Eligible(c).outstandingHelper)
                    => c.certificateType = "peer-mentor"

\* C8: over all completion invocations for the session, the creator's
\* totalPoints is increased at most once.
C8_PointsAwardedOnce ==
    Cardinality({i \in DOMAIN completions : completions[i].pointsStored}) <= 1

\* C9: completeSession on a session whose stored status is already completed
\* fails, and leaves the status, the points, the certificates and the badges
\* as they were.
C9_CompletedRejected ==
    [][\A i \in DOMAIN completions :
          (/\ completions[i].pc = "completeSession"
           /\ session.status = "completed"
           /\ completions'[i].pc # "completeSession")
          => (completions'[i].pc = "failed" /\ UNCHANGED storeVars)]_vars

\* C10: a completed session stays completed, and no step sets the status of
\* an existing session back to scheduled.
C10_StatusForward ==
    [][/\ session.status = "completed" => session'.status = "completed"
       /\ (session'.status = "scheduled" /\ session.status # "scheduled")
             => session.status = "none"]_vars

\* A second completion request has been applied to the completed session.
C10_Witness ==
    /\ session.status = "completed"
    /\ Len(completions) >= 2
    /\ \A i \in DOMAIN completions :
          completions[i].pc \notin {"completeSession", "failed"}

\* maxSeats is set (null is carried as 0).
seatsLimited(s) == s.maxSeats # 0

\* A handleJoinSession of u is answered in this step.
JoinAnswered(u) == joins'[u] < joins[u]

\* C11: a session with maxSeats set never has more than maxSeats attendees.
C11_WithinCapacity ==
    seatsLimited(session) => Len(session.attendees) <= session.maxSeats

\* C12: a join request of a user who is not the creator (and not yet on the
\* roster, so that the capacity is all that stands against it), answered while
\* maxSeats is set and the roster has maxSeats attendees or more, fails and
\* leaves the roster as it was.
C12_CapacityError ==
    [][\A u \in DOMAIN joins :
          (/\ JoinAnswered(u)
           /\ ~isAttending(session, u)
           /\ seatsLimited(session)
           /\ Len(session.attendees) >= session.maxSeats
           /\ u # session.creatorId)
          => session'.attendees = session.attendees]_vars

\* C13: no user id appears twice among the attendees of the session (a join
\* of a user already on the roster fails).
C13_NoDuplicateAttendee ==
    \A i, j \in DOMAIN session.attendees :
        i # j => session.attendees[i] # session.attendees[j]

holdsBadge(user, name) ==
    \E i \in DOMAIN badges : badges[i].userId = user /\ badges[i].badgeName = name

\* handleCompleteSession run c has ended.
Ended(c) == c.pc \in {"succeeded", "failed"}

\* C16: there is at most one certificate for the creator and the session, and
\* no user holds a badge of the same name twice.
C16_NoDuplicateAwards ==
    /\ \A i, j \in DOMAIN certificates :
          i # j => certificates[i].userId # certificates[j].userId
    /\ \A i, j \in DOMAIN badges :
          i # j => \/ badges[i].userId # badges[j].userId
                   \/ badges[i].badgeName # badges[j].badgeName

\* C17: once a completion has succeeded, the creator holds the badge of every
\* threshold of the table that the creator's totalPoints has reached; and
\* whoever holds a badge of the table has totalPoints at or above its
\* threshold.
C17_BadgesFollowPoints ==
    /\ \A i \in DOMAIN completions :
          completions[i].pc = "succeeded" =>
              \A k \in DOMAIN badgeThresholds :
                  totalPoints[completions[i].creatorId] >= badgeThresholds[k].points
                  => holdsBadge(completions[i].creatorId, badgeThresholds[k].name)
    /\ \A i \in DOMAIN badges :
          \A k \in DOMAIN badgeThresholds :
              badges[i].badgeName = badgeThresholds[k].name
              => totalPoints[badges[i].userId] >= badgeThresholds[k].points

\* The points of the formula for a session document and a feedback list.
pointsFormula(s, feedbacks) ==
    stepTable(Len(s.attendees)) + (IF s.status = "completed" THEN 1 ELSE 0)
    + (IF feedbacks = <<>> THEN 0
       ELSE (IF meanAtLeast45(feedbacks) THEN 3 ELSE 0)
            + behaviorCount(feedbacks, "Good"))

\* C18: a step that changes totalPoints is the points step of a completion;
\* it adds to the total of the session's creator the points of the formula
\* for the session as read back and the feedback list of that completion, and
\* changes the total of nobody else.
C18_PointsAdditive ==
    [][totalPoints' # totalPoints =>
          \E i \in DOMAIN completions :
              /\ completions[i].pc = "addPoints"
              /\ totalPoints' =
                    [totalPoints EXCEPT ![session.creatorId] =
                        @ + pointsFormula(completions[i].sessionData,
                                          completions[i].allFeedbacks)]]_vars

\* The creator's total has been raised twice, the second time from a total
\* that was not 0.
C18_Witness ==
    /\ Len(completions) = 2
    /\ \A i \in DOMAIN completions :
          completions[i].pointsStored /\ completions[i].totalPoints > 0
    /\ totalPoints[session.creatorId]
         = completions[1].totalPoints + completions[2].totalPoints

\* C19: a completion that has marked the session completed and read it back
\* with at least one attendee does not end without a certificate for the
\* creator having been created and the badge step having been reached.
C19_CertificateIssued ==
    \A i \in DOMAIN completions :
        LET c == completions[i]
        IN  (Ended(c) /\ c.sessionData # NoSession
             /\ Len(c.sessionData.attendees) > 0)
            => /\ \E k \in DOMAIN certificates :
                     certificates[k].userId = c.creatorId
               /\ c.pc = "succeeded"

\* C21: no step puts the session into status ongoing, and a session starts
\* in status scheduled.
C21_NeverOngoing ==
    [][/\ session'.status # "ongoing"
       /\ (session.status = "none" /\ session' # session)
             => session'.status = "scheduled"]_vars

\* The session has gone from scheduled to completed through a completion that
\* has succeeded.
C21_Witness ==
    /\ session.status = "completed"
    /\ \E i \in DOMAIN completions : completions[i].pc = "succeeded"

\* C22: when a completion invoked once computes its points (the session has
\* been read back), the amount is that of the formula for the stored session
\* and the stored feedback list of that moment.
C22_ConsistentSnapshot ==
    [][\A i \in DOMAIN completions :
          (/\ Len(completions) = 1
           /\ completions[i].pc = "getSession"
           /\ completions'[i].pc = "addPoints")
          => completions'[i].totalPoints = pointsFormula(session, feedbackDb)]_vars

\* C28: once the stored status is completed the roster does not change.
C28_RosterFrozen ==
    [][session.status = "completed"
          => session'.attendees = session.attendees]_vars

\* Run c has computed its points.
PointsComputed(c) == c.sessionData # NoSession

\* C23: every entry of the feedback list a completion computes the points,
\* the rating average and the eligibility from was submitted by an attendee
\* of the session (so none is the creator's own completion form).
C23_AttendeeFeedbackOnly ==
    \A i \in DOMAIN completions :
        LET c == completions[i]
        IN  PointsComputed(c) =>
              \A k \in DOMAIN c.allFeedbacks :
                  /\ isAttending(c.sessionData, c.allFeedbacks[k].studentId)
                  /\ c.allFeedbacks[k].studentId # c.creatorId

\* C24: the stored feedback of the session has at most one entry per student.
C24_OneFeedbackPerStudent ==
    \A i, j \in DOMAIN feedbackDb :
        i # j => feedbackDb[i].studentId # feedbackDb[j].studentId

\* C25: a completion that has ended in its error branch has left the session
\* not completed, has stored no points and has created no certificate; and
\* once every completion has ended, a completed session has had its points
\* stored.
C25_AllOrNothing ==
    /\ \A i \in DOMAIN completions :
          completions[i].pc = "failed" =>
              /\ session.status # "completed"
              /\ ~completions[i].pointsStored
              /\ completions[i].certificateType = "none"
    /\ (session.status = "completed"
        /\ \A i \in DOMAIN completions : Ended(completions[i]))
       => \E i \in DOMAIN completions : completions[i].pointsStored

\* C26: a completion that has reported success has had its points stored.
C26_SuccessMeansPoints ==
    \A i \in DOMAIN completions :
        completions[i].pc = "succeeded" => completions[i].pointsStored

\* C29: a step that makes the session completed is the status request of a
\* completion invoked by the creator of the session, from a page whose loaded
\* feedback list was not empty, on a session not yet completed.
C29_CompletedByCreator ==
    [][(session.status # "completed" /\ session'.status = "completed") =>
          \E i \in DOMAIN completions :
              /\ completions[i].pc = "completeSession"
              /\ completions'[i].pc = "getSession"
              /\ completions[i].user = session.creatorId
              /\ Len(completions[i].allFeedbacks) > 1
              /\ session.status = "scheduled"]_vars

\* The creator's completion has made the session completed and has read it
\* back.
C29_Witness ==
    /\ session.status = "completed"
    /\ \E i \in DOMAIN completions :
          /\ completions[i].user = session.creatorId
          /\ completions[i].pc = "addPoints"
          /\ completions[i].sessionData.status = "completed"

\* C27: on a non-empty list (here with every behavior Good, so that the
\* rating decides outstandingHelper) the bonus contains the +3 exactly when
\* outstandingHelper holds.
C27_RatingTestsAgree ==
    (call.fn = "bonusAndEligibility" /\ ret.done) =>
        (ret.value.bonusPoints - behaviorCount(call.feedbacks, "Good") = 3)
            = ret.value.eligibility.outstandingHelper

\* C30: while no userId is stored (as handleLogout leaves the browser, until
\* a login stores one again), no step makes currentUser non-null again, and
\* so none brings a protected route back.
C30_LogoutEndsLogin ==
    [][(app.userId = NoUser /\ app'.userId = NoUser
        /\ app.currentUser = NoUser)
          => (app'.currentUser = NoUser /\ ~protectedShown')]_vars

====
